---- MODULE Spec2Model ----
(***************************************************************************)
(* A model of Statsmodels_utils: the bounded real-time polling loop        *)
(* (simulate_realtime), the two ingestion functions (fetch_historical_data *)
(* and fetch_and_process_data), and the fit/forecast/export functions      *)
(* (run_arima_analysis, save_to_csv, plot_forecast).                       *)
(*                                                                         *)
(* Time is counted in units of 10 seconds since the epoch, the resolution  *)
(* of the spec's resampling scenario (t0, t0+10s, t0+70s).  A DataFrame    *)
(* with a DatetimeIndex and one 'price' column is a sequence of rows       *)
(* [ts |-> instant, price |-> rational], in row order.  A price is an      *)
(* exact rational <<numerator, denominator>> in lowest terms, so that a    *)
(* mean is computed and not assumed.                                       *)
(***************************************************************************)
EXTENDS Integers, Sequences, FiniteSets, TLC

VARIABLES
    fn,           \* the function that is called
    pc,           \* position of the running function
    heap,         \* DataFrame objects: object id -> rows
    local,        \* the object the function's local name df is bound to
    ret,          \* what the function returned: an object id, or "nothing"
    raised,       \* the exception that reached the caller, or "none"
    logged,       \* records handed to the module-level logger, in order
    minutes,      \* simulate_realtime: the parameter minutes
    iter,         \* simulate_realtime: completed passes of the for loop
    clock,        \* the wall clock
    fetchSpot,    \* the spot provider: "always_ok" or "may_fail"
    cancel,       \* a cancellation request raised by the host
    initial,      \* history: the caller's rows when the call was made
    obs,          \* history: the observations of the completed ticks
    fetchTimes,   \* history: the clock at each spot request
    prevLast,     \* history: the last index label just before each tick's write
    sleeps,       \* history: completed time.sleep(60) calls
    response,     \* ingestion: the provider's response
    days,         \* fetch_and_process_data: the parameter days (0: not called)
    csv,          \* files written: file name -> content
    rendered,     \* what was handed to matplotlib and shown
    fitted,       \* run_arima_analysis: the series handed to ARIMA
    forecast,     \* run_arima_analysis: the returned forecast
    forecastIndex \* save_to_csv / plot_forecast: the forecast timestamps attached

vars == <<fn, pc, heap, local, ret, raised, logged, minutes, iter, clock, fetchSpot,
          cancel, initial, obs, fetchTimes, prevLast, sleeps, response, days,
          csv, rendered, fitted, forecast, forecastIndex>>

simVars == <<minutes, iter, clock, fetchSpot, cancel, initial, obs, fetchTimes,
             prevLast, sleeps>>

ingestVars == <<response, days>>

forecastVars == <<fitted, forecast, forecastIndex>>

----------------------------------------------------------------------------
(* Units and bounds *)

\* "1min" (resample, date_range, Timedelta(minutes=1)) and time.sleep(60).
Minute == 6

\* "1H" and "1D" of fetch_and_process_data.
Hour == 360

Day == 8640

\* steps=30 of results.forecast, periods=30 of pd.date_range.
Steps == 30

\* df.index[-120:] and df['price'].tail(120) of plot_forecast.
PlotWindow == 120

\* simulate_realtime is called with minutes in 0..MaxMinutes.
MaxMinutes == 3

\* The caller's series holds at most MaxInit rows when simulate_realtime is called.
MaxInit == 2

\* A spot request takes 0..MaxLatency units of wall-clock time.
MaxLatency == 1

\* The wall clock when simulate_realtime is called.
CallTime == 2

\* A provider payload, or a series handed to run_arima_analysis, has at most
\* MaxObs observations.
MaxObs == 3

----------------------------------------------------------------------------
(* Rational arithmetic for prices *)

RECURSIVE Gcd(_, _)
Gcd(a, b) == IF b = 0 THEN a ELSE Gcd(b, a % b)

Rat(n, d) ==
    LET g == Gcd(n, d) IN <<n \div g, d \div g>>

RatAdd(p, q) == Rat(p[1] * q[2] + q[1] * p[2], p[2] * q[2])

RECURSIVE RatSum(_)
RatSum(ps) ==
    IF ps = <<>> THEN <<0, 1>> ELSE RatAdd(Head(ps), RatSum(Tail(ps)))

----------------------------------------------------------------------------
(* DataFrame primitives *)

Row(t, p) == [ts |-> t, price |-> p]

\* A record handed to logger: its level, its message and, where the message
\* is a response's text, that response.
Log(level, msg, resp) == [level |-> level, msg |-> msg, text |-> resp]

Price(n) == <<n, 1>>

Labels(rows) == {rows[k].ts : k \in 1..Len(rows)}

\* df.index[-1]; -1 stands for "no label" (every instant is >= 0).
LastLabel(rows) == IF rows = <<>> THEN -1 ELSE rows[Len(rows)].ts

\* df.loc[now] = price: a label already in the index has its row overwritten;
\* a new label is appended as the last row (setting with enlargement).
LocSet(rows, now, price) ==
    IF now \in Labels(rows)
    THEN [k \in 1..Len(rows) |->
            IF rows[k].ts = now THEN Row(now, price) ELSE rows[k]]
    ELSE Append(rows, Row(now, price))

\* Strictly ascending series of at most n rows over the instants T and the
\* prices P: the Series of the data model (unique timestamps, sorted).
RECURSIVE SeriesUpTo(_, _, _)
SeriesUpTo(n, T, P) ==
    IF n = 0 THEN {<<>>}
    ELSE LET S == SeriesUpTo(n - 1, T, P)
         IN  S \cup UNION {
                 {Append(s, Row(t, p)) : t \in {u \in T : u > LastLabel(s)}, p \in P} :
                 s \in {x \in S : Len(x) = n - 1}}

----------------------------------------------------------------------------
(* df.resample(freq).mean(), .dropna() and .ffill() *)

\* The missing value pandas puts in an empty bin.
NaN == <<0, 0>>

Min(S) == CHOOSE x \in S : \A y \in S : x <= y

Max(S) == CHOOSE x \in S : \A y \in S : x >= y

\* A variant that labels an instant by the next bin edge.
BucketStartCeil(t, f) == ((t + f - 1) \div f) * f

\* The bin of an instant: bins are closed on the left and labelled by their
\* left edge, and for "1min", "1H" and "1D" on a UTC index the edges are
\* the multiples of the frequency.
BucketStart(t, f) == (t \div f) * f

\* The prices of the rows that fall in the bin starting at b.
BucketPrices(rows, b, f) ==
    LET members == SelectSeq(rows, LAMBDA r : BucketStart(r.ts, f) = b)
    IN  [k \in 1..Len(members) |-> members[k].price]

\* A variant that aggregates with .sum().
MeanAsSum(ps) == RatSum(ps)

\* .mean() of a bin: the sum over the count, NaN for an empty bin.
Mean(ps) ==
    IF ps = <<>> THEN NaN
    ELSE LET sum == RatSum(ps) IN Rat(sum[1], sum[2] * Len(ps))

\* df.resample(freq).mean(): one row per bin from the first observation's
\* bin to the last observation's bin, empty bins included.
ResampleMean(rows, f) ==
    IF rows = <<>> THEN <<>>
    ELSE LET first == Min({BucketStart(rows[k].ts, f) : k \in 1..Len(rows)})
             last == Max({BucketStart(rows[k].ts, f) : k \in 1..Len(rows)})
         IN  [k \in 1..((last - first) \div f + 1) |->
                Row(first + (k - 1) * f,
                    Mean(BucketPrices(rows, first + (k - 1) * f, f)))]

\* .dropna(): the rows holding a missing value are removed.
Dropna(rows) == SelectSeq(rows, LAMBDA r : r.price # NaN)

\* A variant that fills from the next valid value (.bfill()).
Bfill(rows) ==
    [k \in 1..Len(rows) |->
        LET later == {j \in k..Len(rows) : rows[j].price # NaN}
        IN  IF later = {} THEN rows[k] ELSE Row(rows[k].ts, rows[Min(later)].price)]

\* .ffill(): a missing value takes the last valid value before it; leading
\* missing values stay missing.
Ffill(rows) ==
    [k \in 1..Len(rows) |->
        LET earlier == {j \in 1..k : rows[j].price # NaN}
        IN  IF earlier = {} THEN rows[k] ELSE Row(rows[k].ts, rows[Max(earlier)].price)]

\* pd.date_range(start=start, periods=n, freq=step)
DateRange(start, n, step) == [k \in 1..n |-> start + (k - 1) * step]

----------------------------------------------------------------------------
(* simulate_realtime(df, minutes) *)

\* The caller's series when simulate_realtime is called: instants before,
\* at and after the first ticks (a provider's clock may run ahead of ours).
InitTimes == 0..(CallTime + Minute)

InitPrices == {Price(100)}

\* response.json()['bitcoin']['usd']
SpotPrices == {Price(50000)}

\* requests.get raising, or a body without ['bitcoin']['usd'].
SpotFailures == {"ConnectionError", "KeyError"}

NoFrame == <<>>

NoResponse == [kind |-> "none", prices |-> <<>>]

SimInit ==
    /\ fn = "simulate_realtime"
    /\ pc = "Idle"
    /\ \E s \in SeriesUpTo(MaxInit, InitTimes, InitPrices) :
         /\ heap = [caller |-> s, fresh |-> NoFrame]
         /\ initial = s
    /\ local = "unbound"
    /\ ret = "nothing"
    /\ raised = "none"
    /\ logged = <<>>
    /\ minutes \in 0..MaxMinutes
    /\ iter = 0
    /\ clock = CallTime
    /\ fetchSpot \in {"always_ok", "may_fail"}
    /\ cancel = FALSE
    /\ obs = <<>>
    /\ fetchTimes = <<>>
    /\ prevLast = <<>>
    /\ sleeps = 0
    /\ response = NoResponse
    /\ days = 0
    /\ csv = <<>>
    /\ rendered = <<>>
    /\ fitted = <<>>
    /\ forecast = <<>>
    /\ forecastIndex = <<>>

\* Python binds the parameter df to the caller's object; the body never rebinds it.
BindParam == "caller"

\* A variant that runs the body once more (range(minutes + 1)).
LoopContinuesOffByOne(i, n) == i <= n

\* for _ in range(minutes): another pass while fewer than minutes are done.
LoopContinues(i, n) == i < n

\* time.sleep(60)
SleepDuration == Minute

\* Lines 121-123: the call, the first log record and the first loop test;
\* with nothing to iterate the function returns df at once (line 130).
Call ==
    /\ pc = "Idle"
    /\ local' = BindParam
    /\ heap' = IF BindParam = "caller" THEN heap
               ELSE [heap EXCEPT ![BindParam] = heap.caller]
    /\ logged' = Append(logged, Log("INFO", "Simulating", NoResponse))
    /\ IF LoopContinues(0, minutes)
       THEN pc' = "fetch" /\ ret' = ret
       ELSE pc' = "Done" /\ ret' = local'
    /\ UNCHANGED <<fn, raised, simVars, ingestVars, csv, rendered, forecastVars>>

\* Lines 124-128: a spot request that succeeds, the clock read after it,
\* the write into df and the log record.
TickOk ==
    /\ pc = "fetch"
    /\ \E lat \in 0..MaxLatency, p \in SpotPrices :
         LET now == clock + lat
         IN  /\ clock' = now
             /\ fetchTimes' = Append(fetchTimes, clock)
             /\ prevLast' = Append(prevLast, LastLabel(heap[local]))
             /\ heap' = [heap EXCEPT ![local] = LocSet(@, now, p)]
             /\ obs' = Append(obs, Row(now, p))
    /\ logged' = Append(logged, Log("INFO", "Appended price", NoResponse))
    /\ pc' = "sleep"
    /\ UNCHANGED <<fn, local, ret, raised, minutes, iter, fetchSpot, cancel, initial,
                   sleeps, ingestVars, csv, rendered, forecastVars>>

\* A variant that swallows the failure and goes on to the sleep.
TickFailsSkip ==
    /\ pc = "fetch"
    /\ fetchSpot = "may_fail"
    /\ \E lat \in 0..MaxLatency :
         /\ clock' = clock + lat
         /\ fetchTimes' = Append(fetchTimes, clock)
    /\ raised' = "KeyError"
    /\ pc' = "sleep"
    /\ UNCHANGED <<fn, heap, local, ret, logged, minutes, iter, fetchSpot, cancel,
                   initial, obs, prevLast, sleeps, ingestVars, csv, rendered,
                   forecastVars>>

\* Lines 124-125 when requests.get or the subscripting raises: nothing
\* catches the exception, so it leaves the function.
TickFails ==
    /\ pc = "fetch"
    /\ fetchSpot = "may_fail"
    /\ \E lat \in 0..MaxLatency, e \in SpotFailures :
         /\ clock' = clock + lat
         /\ fetchTimes' = Append(fetchTimes, clock)
         /\ raised' = e
    /\ pc' = "Aborted"
    /\ UNCHANGED <<fn, heap, local, ret, logged, minutes, iter, fetchSpot, cancel,
                   initial, obs, prevLast, sleeps, ingestVars, csv, rendered,
                   forecastVars>>

\* Line 129, then the loop test of line 123 and, when the range is
\* exhausted, the return of line 130.
Sleep ==
    /\ pc = "sleep"
    /\ clock' = clock + SleepDuration
    /\ sleeps' = sleeps + 1
    /\ iter' = iter + 1
    /\ IF LoopContinues(iter', minutes)
       THEN pc' = "fetch" /\ ret' = ret
       ELSE pc' = "Done" /\ ret' = local
    /\ UNCHANGED <<fn, heap, local, raised, logged, minutes, fetchSpot, cancel,
                   initial, obs, fetchTimes, prevLast, ingestVars, csv, rendered,
                   forecastVars>>

\* The host asks the running loop to stop.  The function has no parameter,
\* flag or handler through which the request could reach it.
Cancel ==
    /\ pc \in {"fetch", "sleep"}
    /\ ~cancel
    /\ cancel' = TRUE
    /\ UNCHANGED <<fn, pc, heap, local, ret, raised, logged, minutes, iter, clock,
                   fetchSpot, initial, obs, fetchTimes, prevLast, sleeps,
                   ingestVars, csv, rendered, forecastVars>>

SimStep == Call \/ TickOk \/ TickFails \/ Sleep

SimNext == SimStep \/ Cancel

\* The interpreter keeps executing the function: a step that can be taken is taken.
SpecSim == SimInit /\ [][SimNext]_vars /\ WF_vars(SimStep)

----------------------------------------------------------------------------
(* fetch_historical_data() and fetch_and_process_data(days, filename, title) *)

IngestPrices == {Price(98), Price(100), Price(102)}

\* What response.json() makes of a body that carries no "prices" member:
\* another JSON object (the provider's error object), a JSON array, JSON
\* null, or no JSON at all.
BadKinds == {"other_object", "json_array", "json_null", "not_json"}

DaysArgs == {1, 30, 365}

\* Lines 224-229: the resampling frequency chosen from days.
Freq(d) == IF d = 1 THEN Minute ELSE IF d = 30 THEN Hour ELSE Day

\* The frequency a call resamples at: "1min" in fetch_historical_data
\* (line 114), Freq(days) in fetch_and_process_data.
UsedFreq == IF fn = "fetch_historical_data" THEN Minute ELSE Freq(days)

\* Instants of the provider's observations, relative to the frequency f the
\* call resamples at: the start, the second unit and the last unit of three
\* consecutive bins.
IngestTimes(f) == {b * f + o : b \in 0..2, o \in {0, 1, f - 1}}

\* What requests.get meets: a JSON object whose "prices" member lists the
\* observations (pd.to_datetime(unit="ms", utc=True) turns epoch
\* milliseconds into instants), a body of one of the BadKinds, or no
\* response at all (requests.get raises).
Responses(f) ==
    {[kind |-> "prices_object", prices |-> s] :
        s \in SeriesUpTo(MaxObs, IngestTimes(f), IngestPrices)}
    \cup {[kind |-> k, prices |-> <<>>] : k \in BadKinds \cup {"no_response"}}

IngestInit ==
    /\ fn \in {"fetch_historical_data", "fetch_and_process_data"}
    /\ pc = "Idle"
    /\ heap = [caller |-> NoFrame, fresh |-> NoFrame]
    /\ local = "unbound"
    /\ ret = "nothing"
    /\ raised = "none"
    /\ logged = <<>>
    /\ minutes = 0
    /\ iter = 0
    /\ clock = 0
    /\ fetchSpot = "always_ok"
    /\ cancel = FALSE
    /\ initial = <<>>
    /\ obs = <<>>
    /\ fetchTimes = <<>>
    /\ prevLast = <<>>
    /\ sleeps = 0
    /\ days \in (IF fn = "fetch_historical_data" THEN {0} ELSE DaysArgs)
    /\ response \in Responses(UsedFreq)
    /\ csv = <<>>
    /\ rendered = <<>>
    /\ fitted = <<>>
    /\ forecast = <<>>
    /\ forecastIndex = <<>>

\* requests.get (lines 103, 214) raising instead of returning.
GetRaises(resp) == resp.kind = "no_response"

\* What response.json() (lines 105, 215) does with the body.
JsonRaises(resp) == resp.kind = "not_json"

\* Line 106, data["prices"]: KeyError on an object without the key,
\* TypeError on an array (indices must be integers) and on null.
SubscriptError(resp) ==
    CASE resp.kind = "other_object" -> "KeyError"
      [] resp.kind \in {"json_array", "json_null"} -> "TypeError"
      [] OTHER -> "none"

\* Line 216, "prices" not in data: TypeError on null (not iterable); true
\* of an object without the key and of an array (of the provider's items).
MembershipError(resp) == IF resp.kind = "json_null" THEN "TypeError" ELSE "none"

LacksPrices(resp) == resp.kind \in {"other_object", "json_array"}

\* Lines 100-115.
FetchHistoricalData ==
    /\ fn = "fetch_historical_data"
    /\ pc = "Idle"
    /\ IF GetRaises(response)
       THEN \* line 103 raises, outside the try
            /\ raised' = "ConnectionError"
            /\ pc' = "Raised"
            /\ UNCHANGED <<heap, local, ret, logged>>
       ELSE IF JsonRaises(response)
       THEN \* line 105 raises; except KeyError does not catch it
            /\ raised' = "JSONDecodeError"
            /\ pc' = "Raised"
            /\ UNCHANGED <<heap, local, ret, logged>>
       ELSE IF SubscriptError(response) = "KeyError"
       THEN \* lines 107-110: both records, then the bare raise
            /\ logged' = logged \o
                 <<Log("ERROR", "Unexpected API response format.", NoResponse),
                   Log("ERROR", "response.text", response)>>
            /\ raised' = "KeyError"
            /\ pc' = "Raised"
            /\ UNCHANGED <<heap, local, ret>>
       ELSE IF SubscriptError(response) # "none"
       THEN \* line 106 raises something except KeyError does not catch
            /\ raised' = SubscriptError(response)
            /\ pc' = "Raised"
            /\ UNCHANGED <<heap, local, ret, logged>>
       ELSE \* lines 111-115
            /\ heap' = [heap EXCEPT
                          !.fresh = Dropna(ResampleMean(response.prices, Minute))]
            /\ local' = "fresh"
            /\ ret' = "fresh"
            /\ pc' = "Returned"
            /\ UNCHANGED <<raised, logged>>
    /\ UNCHANGED <<fn, simVars, ingestVars, csv, rendered, forecastVars>>

\* Lines 211-241.
FetchAndProcessData ==
    /\ fn = "fetch_and_process_data"
    /\ pc = "Idle"
    /\ LET d == days
       IN  IF GetRaises(response)
            THEN \* line 214 raises
                 /\ raised' = "ConnectionError"
                 /\ pc' = "Raised"
                 /\ UNCHANGED <<heap, local, ret, logged, csv, rendered>>
            ELSE IF JsonRaises(response)
            THEN \* line 215 raises
                 /\ raised' = "JSONDecodeError"
                 /\ pc' = "Raised"
                 /\ UNCHANGED <<heap, local, ret, logged, csv, rendered>>
            ELSE IF MembershipError(response) # "none"
            THEN \* line 216 raises
                 /\ raised' = MembershipError(response)
                 /\ pc' = "Raised"
                 /\ UNCHANGED <<heap, local, ret, logged, csv, rendered>>
            ELSE IF LacksPrices(response)
            THEN \* lines 217-219
                 /\ logged' = logged \o
                      <<Log("ERROR", "Unexpected response", NoResponse),
                        Log("ERROR", "response.text", response)>>
                 /\ ret' = "None"
                 /\ pc' = "Returned"
                 /\ UNCHANGED <<heap, local, raised, csv, rendered>>
            ELSE \* lines 220-241
                 LET df == Dropna(ResampleMean(response.prices, Freq(d)))
                 IN  /\ heap' = [heap EXCEPT !.fresh = df]
                     /\ local' = "fresh"
                     /\ csv' = Append(csv, [file |-> "filename", rows |-> df])
                     /\ logged' = Append(logged, Log("INFO", "Saved data", NoResponse))
                     /\ rendered' = Append(rendered, [title |-> "title", rows |-> df])
                     /\ ret' = "fresh"
                     /\ pc' = "Returned"
                     /\ UNCHANGED raised
    /\ UNCHANGED <<fn, simVars, ingestVars, forecastVars>>

IngestNext == FetchHistoricalData \/ FetchAndProcessData

SpecIngest == IngestInit /\ [][IngestNext]_vars

----------------------------------------------------------------------------
(* run_arima_analysis(df), save_to_csv(df, forecast), plot_forecast(df, forecast) *)

\* Instants of the caller's series: the start, the second unit and the last
\* unit of four consecutive minutes.
ForecastTimes == {b * Minute + o : b \in 0..3, o \in {0, 1, Minute - 1}}

ForecastPrices == {Price(98), Price(100), Price(102)}

NoForecast == [origin |-> -1, step |-> 0, steps |-> 0]

ForecastInit ==
    /\ fn = "run_arima_analysis"
    /\ pc = "Idle"
    /\ \E s \in SeriesUpTo(MaxObs, ForecastTimes, ForecastPrices) :
         /\ heap = [caller |-> s, fresh |-> NoFrame]
         /\ initial = s
    /\ local = "caller"
    /\ ret = "nothing"
    /\ raised = "none"
    /\ logged = <<>>
    /\ minutes = 0
    /\ iter = 0
    /\ clock = 0
    /\ fetchSpot = "always_ok"
    /\ cancel = FALSE
    /\ obs = <<>>
    /\ fetchTimes = <<>>
    /\ prevLast = <<>>
    /\ sleeps = 0
    /\ response = NoResponse
    /\ days = 0
    /\ csv = <<>>
    /\ rendered = <<>>
    /\ fitted = <<>>
    /\ forecast = NoForecast
    /\ forecastIndex = <<>>

\* Line 155: the resampled, forward-filled frame is a new object that the
\* local name df is rebound to.
FitInput(rows) == Ffill(ResampleMean(rows, Minute))

\* Lines 154-159.  ARIMA(...).fit() is numerical code outside the module:
\* it either returns results or raises (always on an empty series).  The
\* forecast of a fitted model continues the index of the series it was
\* fitted on; its values are not modelled.
RunArimaAnalysis ==
    /\ fn = "run_arima_analysis"
    /\ pc = "Idle"
    /\ heap' = [heap EXCEPT !.fresh = FitInput(heap[local])]
    /\ local' = "fresh"
    /\ fitted' = heap'.fresh
    /\ \/ /\ fitted' # <<>>
          /\ forecast' = [origin |-> LastLabel(fitted'), step |-> Minute,
                          steps |-> Steps]
          /\ ret' = "results, forecast"
          /\ pc' = "Fitted"
          /\ UNCHANGED raised
       \/ /\ raised' = "fit failed"
          /\ pc' = "Raised"
          /\ UNCHANGED <<forecast, ret>>
    /\ UNCHANGED <<fn, logged, simVars, ingestVars, csv, rendered, forecastIndex>>

\* Lines 168 and 184: the index built for the forecast values.
ForecastIndexFor(rows) == DateRange(LastLabel(rows) + Minute, Steps, Minute)

\* The forecast values laid against an index; the value at position k is
\* the k-th number of the forecast, whatever the fit made it.
ForecastRows(index) ==
    [k \in 1..Len(index) |-> [ts |-> index[k], forecast_price |-> k]]

\* rows[-n:]
LastRows(rows, n) ==
    IF Len(rows) <= n THEN rows ELSE SubSeq(rows, Len(rows) - n + 1, Len(rows))

\* Lines 182-188, called with the df that was passed to run_arima_analysis
\* and the forecast it returned.
SaveToCsv ==
    /\ pc = "Fitted"
    /\ fn' = "save_to_csv"
    /\ forecastIndex' = ForecastIndexFor(heap.caller)
    /\ csv' = csv \o
         <<[file |-> "btc_full_data.csv", rows |-> heap.caller],
           [file |-> "btc_price_forecast.csv",
            rows |-> ForecastRows(forecastIndex')]>>
    /\ logged' = Append(logged, Log("INFO", "Data saved", NoResponse))
    /\ ret' = "None"
    /\ pc' = "Saved"
    /\ UNCHANGED <<heap, local, raised, simVars, ingestVars, rendered, fitted,
                   forecast>>

\* Lines 165-176, called with the same two arguments.
PlotForecast ==
    /\ pc = "Fitted"
    /\ fn' = "plot_forecast"
    /\ forecastIndex' = ForecastIndexFor(heap.caller)
    /\ rendered' = rendered \o
         <<[title |-> "Actual Price", rows |-> LastRows(heap.caller, PlotWindow)],
           [title |-> "Forecast (Next 30 mins)",
            rows |-> ForecastRows(forecastIndex')]>>
    /\ ret' = "None"
    /\ pc' = "Plotted"
    /\ UNCHANGED <<heap, local, raised, logged, simVars, ingestVars, csv, fitted,
                   forecast>>

ForecastNext == RunArimaAnalysis \/ SaveToCsv \/ PlotForecast

SpecForecast == ForecastInit /\ [][ForecastNext]_vars

----------------------------------------------------------------------------
(* Claims about simulate_realtime, checked under SpecSim *)

Returned == heap[ret]

\* Each tick's timestamp is later than the last label the series had just
\* before that tick's write.
AppendsAscend == \A k \in 1..Len(obs) : obs[k].ts > prevLast[k]

\* Some tick's timestamp was already a label of the series when it was written.
Overwrote ==
    \E k \in 1..Len(obs) :
        obs[k].ts \in Labels(initial) \cup {obs[j].ts : j \in 1..(k - 1)}

\* The initial series ends before the first tick's timestamp.
InitialEndsBeforeFirstTick ==
    initial = <<>> \/ obs = <<>> \/ LastLabel(initial) < obs[1].ts

\* C1 as stated: for any initial series, after a run whose ticks all
\* succeeded the returned series has len(initial) + N rows and every tick's
\* timestamp is later than the series' last label just before it.
C1_AnyInitial ==
    (pc = "Done" /\ raised = "none") =>
        /\ Len(Returned) = Len(initial) + minutes
        /\ AppendsAscend

\* What the loop does guarantee (C1 restricted): the same, for an initial
\* series whose last timestamp is earlier than the first tick's timestamp.
C1_InitialBeforeFirstTick ==
    (pc = "Done" /\ raised = "none" /\ InitialEndsBeforeFirstTick) =>
        /\ Len(Returned) = Len(initial) + minutes
        /\ AppendsAscend

C1_Witness ==
    /\ pc = "Done"
    /\ raised = "none"
    /\ minutes >= 2
    /\ initial # <<>>
    /\ LastLabel(initial) < obs[1].ts
    /\ Len(Returned) = Len(initial) + minutes

\* C2: once a tick's spot request fails the exception has reached the
\* caller and the loop is Aborted: the failed request is the last one, and
\* no write, sleep, return or further request follows in any later step.
C2_FailureAborts ==
    /\ [](raised # "none" =>
            /\ pc = "Aborted"
            /\ ret = "nothing"
            /\ Len(fetchTimes) = Len(obs) + 1
            /\ sleeps = Len(obs))
    /\ [][raised # "none" =>
            UNCHANGED <<pc, heap, ret, raised, obs, fetchTimes, sleeps, iter,
                        clock, logged>>]_vars

C2_Witness ==
    /\ pc = "Aborted"
    /\ raised = "KeyError"
    /\ Len(obs) >= 1
    /\ minutes > Len(fetchTimes)

\* Consecutive spot requests are at least one interval apart, and exactly
\* one sleep has completed between them.
OneSleepBetweenFetches ==
    /\ \A k \in 1..(Len(fetchTimes) - 1) : fetchTimes[k + 1] - fetchTimes[k] >= Minute
    /\ pc = "fetch" => sleeps = Len(fetchTimes)
    /\ pc = "sleep" => sleeps = Len(fetchTimes) - 1

\* C3: with a spot provider that always succeeds, for every minutes = n >= 0
\* the loop reaches Done having made exactly n requests; it never makes an
\* (n+1)-th request, and consecutive requests are one full sleep apart.
C3_ReachesDone ==
    /\ [](fetchSpot = "always_ok" =>
            /\ Len(fetchTimes) <= minutes
            /\ OneSleepBetweenFetches
            /\ pc \notin {"Aborted"})
    /\ (fetchSpot = "always_ok") ~>
          (pc = "Done" /\ Len(fetchTimes) = minutes /\ ret = "caller")

C3_Witness ==
    /\ fetchSpot = "always_ok"
    /\ pc = "Done"
    /\ minutes = 3
    /\ Len(fetchTimes) = 3
    /\ sleeps = 3

\* C8 as stated: once cancellation is requested the loop makes no further
\* spot request and completes no further sleep, and it ends Aborted.
C8_CancelStopsLoop ==
    [][cancel =>
          /\ fetchTimes' = fetchTimes
          /\ sleeps' = sleeps
          /\ pc' \in {pc, "Aborted"}]_vars

\* C10 as stated: at every point the caller's object holds the initial rows
\* followed by the observations of the completed ticks (so after a failure
\* at tick k, the initial rows and the k-1 earlier observations), and the
\* function returns the caller's object.
C10_InPlace ==
    /\ heap.caller = initial \o obs
    /\ pc = "Aborted" =>
          /\ Len(obs) = Len(fetchTimes) - 1
          /\ heap.caller = initial \o SubSeq(obs, 1, Len(fetchTimes) - 1)
    /\ pc = "Done" => ret = "caller"

\* What the loop does guarantee (C10 restricted): the same while no tick's
\* timestamp was already a label of the series; such a tick overwrites that
\* row's price and adds no row.
C10_InPlaceUnlessOverwrite ==
    /\ ~Overwrote => heap.caller = initial \o obs
    /\ Overwrote => Len(heap.caller) < Len(initial) + Len(obs)
    /\ pc = "Aborted" =>
          /\ Len(obs) = Len(fetchTimes) - 1
          /\ ~Overwrote =>
                heap.caller = initial \o SubSeq(obs, 1, Len(fetchTimes) - 1)
    /\ pc = "Done" => ret = "caller"

C10_Witness ==
    /\ pc = "Aborted"
    /\ Len(fetchTimes) = 3
    /\ initial # <<>>
    /\ ~Overwrote
    /\ heap.caller = initial \o obs
    /\ Len(obs) = 2

----------------------------------------------------------------------------
(* Claims about the ingestion functions, checked under SpecIngest *)

\* The raw response was handed to the logger.
RawResponseLogged == \E k \in 1..Len(logged) : logged[k].text = response

\* C4 as stated: for every response that lacks the price-series field,
\* fetch_and_process_data reports the failure (it returns None or raises), produces no
\* series (none returned, none written, none rendered), and the raw
\* response is logged.
C4_BadResponseReported ==
    (fn = "fetch_and_process_data" /\ pc # "Idle" /\ response.kind \in BadKinds) =>
        /\ ret = "None" \/ raised # "none"
        /\ ret # "fresh"
        /\ heap.fresh = NoFrame
        /\ csv = <<>>
        /\ rendered = <<>>
        /\ RawResponseLogged

\* The rows of a series whose instants lie in [b, b + f).
InBin(rows, b, f) == SelectSeq(rows, LAMBDA r : b <= r.ts /\ r.ts < b + f)

\* q is the arithmetic mean of the prices of rows: q * count = sum.
IsMeanOf(q, rows) ==
    /\ rows # <<>>
    /\ q # NaN
    /\ RatSum([k \in 1..Len(rows) |-> rows[k].price]) = Rat(q[1] * Len(rows), q[2])

\* out is in resampled at f with the gaps dropped: every observation lies
\* in the bin of exactly one output row, whose label is a multiple of f;
\* every output row labels a non-empty bin and holds the mean of that
\* bin's observations; the output is strictly ascending.
DropGapResampled(in, out, f) ==
    /\ \A k \in 1..Len(in) :
          Cardinality({j \in 1..Len(out) :
                         /\ out[j].ts % f = 0
                         /\ out[j].ts <= in[k].ts
                         /\ in[k].ts < out[j].ts + f}) = 1
    /\ \A j \in 1..Len(out) :
          /\ out[j].ts % f = 0
          /\ IsMeanOf(out[j].price, InBin(in, out[j].ts, f))
    /\ \A j \in 1..(Len(out) - 1) : out[j].ts < out[j + 1].ts

\* The spec's scenario: observations at t0, t0 + 10 s and t0 + 70 s.
Scenario(t0) ==
    <<Row(t0, Price(100)), Row(t0 + 1, Price(102)), Row(t0 + Minute + 1, Price(98))>>

ScenarioResult(t0) ==
    <<Row(t0 - (t0 % Minute), Price(101)), Row(t0 - (t0 % Minute) + Minute, Price(98))>>

Ingested == pc = "Returned" /\ ret = "fresh"

\* C5 as stated: the ingestion functions' output is the input resampled
\* with the gaps dropped, and the scenario [(t0,100),(t0+10s,102),
\* (t0+70s,98)] at 1 minute gives [(floor(t0),101),(floor(t0)+60s,98)]
\* for every t0.
C5_DropGapResample ==
    Ingested =>
        /\ DropGapResampled(response.prices, heap.fresh, UsedFreq)
        /\ \A t0 \in 0..(Minute - 1) :
              (UsedFreq = Minute /\ response.prices = Scenario(t0)) =>
                  heap.fresh = ScenarioResult(t0)

\* C5 amended: the same, the scenario's result holding for every t0 less
\* than 50 s past the start of its minute (so that t0 + 10 s is in t0's bin).
C5_DropGapResampleScenarioInBin ==
    Ingested =>
        /\ DropGapResampled(response.prices, heap.fresh, UsedFreq)
        /\ \A t0 \in 0..(Minute - 1) :
              (/\ UsedFreq = Minute
               /\ response.prices = Scenario(t0)
               /\ (t0 % Minute) + 1 < Minute) =>
                  heap.fresh = ScenarioResult(t0)

C5_Witness ==
    /\ Ingested
    /\ fn = "fetch_and_process_data"
    /\ days = 1
    /\ response.prices = Scenario(0)
    /\ heap.fresh = ScenarioResult(0)

----------------------------------------------------------------------------
(* Claims about the forecast functions, checked under SpecForecast *)

\* At least two rows, consecutive timestamps exactly one step apart.
Regular(rows, step) ==
    /\ Len(rows) >= 2
    /\ \A k \in 1..(Len(rows) - 1) : rows[k + 1].ts - rows[k].ts = step

Aligned(rows, step) == \A k \in 1..Len(rows) : rows[k].ts % step = 0

Resampled == fn = "run_arima_analysis" /\ pc # "Idle"

\* C6 as stated: resampling a regular series at its own frequency returns
\* the same timestamps and values, whatever the offset of its first
\* timestamp within a bin (with the gaps forward-filled as with the gaps dropped).
C6_ResampleRegularUnchanged ==
    (Resampled /\ Regular(initial, Minute)) =>
        /\ fitted = initial
        /\ Dropna(ResampleMean(initial, Minute)) = initial

\* C6 amended: resampling a regular series at its own frequency returns the
\* same values, each timestamp moved back to the start of its bin; the
\* series is returned unchanged when its timestamps are bin starts.
C6_ResampleRegularFloors ==
    (Resampled /\ Regular(initial, Minute)) =>
        /\ Len(fitted) = Len(initial)
        /\ \A k \in 1..Len(initial) :
              /\ fitted[k].price = initial[k].price
              /\ fitted[k].ts = initial[k].ts - (initial[k].ts % Minute)
        /\ Dropna(ResampleMean(initial, Minute)) = fitted
        /\ Aligned(initial, Minute) => fitted = initial

C6_Witness ==
    /\ Resampled
    /\ Len(initial) = 3
    /\ Regular(initial, Minute)
    /\ ~Aligned(initial, Minute)
    /\ fitted # initial
    /\ fitted[3].price = initial[3].price

Exported == pc \in {"Saved", "Plotted"}

\* C7 as stated: the timestamps save_to_csv and plot_forecast attach to the
\* 30 forecast values are origin + step * i, i = 1..30, origin being the last
\* timestamp of the series the model was fitted on and step its 1-minute
\* spacing; none of them is a timestamp of the fitted series.
C7_ForecastIndexContinuesFit ==
    Exported =>
        /\ Len(forecastIndex) = Steps
        /\ \A i \in 1..Steps :
              forecastIndex[i] = LastLabel(fitted) + Minute * i
        /\ forecastIndex[1] = forecast.origin + forecast.step
        /\ \A i \in 1..Steps : forecastIndex[i] \notin Labels(fitted)

\* The 1-minute bins from the first to the last observation of rows.
BinsSpanned(rows) ==
    {b \in (rows[1].ts - (rows[1].ts % Minute))..LastLabel(rows) : b % Minute = 0}

\* C9: the series handed to ARIMA has exactly one row for every 1-minute
\* bin from the first to the last observed one; a non-empty bin holds the
\* mean of its observations and an empty bin the value of the nearest
\* preceding non-empty bin; the caller's series is unchanged.
C9_FitInputHasNoGaps ==
    (Resampled /\ initial # <<>>) =>
        /\ \A b \in BinsSpanned(initial) :
              /\ Cardinality({k \in 1..Len(fitted) : fitted[k].ts = b}) = 1
              /\ LET row == fitted[CHOOSE k \in 1..Len(fitted) : fitted[k].ts = b]
                     filled == {c \in BinsSpanned(initial) :
                                  c <= b /\ InBin(initial, c, Minute) # <<>>}
                 IN  IsMeanOf(row.price, InBin(initial, Max(filled), Minute))
        /\ Labels(fitted) = BinsSpanned(initial)
        /\ \A k \in 1..(Len(fitted) - 1) : fitted[k].ts < fitted[k + 1].ts
        /\ heap.caller = initial

C9_Witness ==
    /\ Resampled
    /\ pc = "Fitted"
    /\ Len(initial) = 3
    /\ Len(fitted) = 4
    /\ InBin(initial, Minute, Minute) = <<>>
    /\ InBin(initial, 2 * Minute, Minute) = <<>>
    /\ fitted[3].price = fitted[1].price
    /\ fitted[4].price # fitted[1].price

====
